---- MODULE Spec2Model ----
(***************************************************************************)
(* Model of src/src/loginitems_plist.rs: extraction of bookmark blobs from *)
(* a deserialized LoginItems property list.                                *)
(*                                                                         *)
(* A plist::Value is a record [tag, bytes, items]:                         *)
(*   Data        bytes is the byte sequence                                *)
(*   Array       items is the sequence of element Values                   *)
(*   Dictionary  items is the sequence of entries [key, value], in the     *)
(*               iteration order of the map (keys are unique)              *)
(*   String, Integer   scalar kinds the code never looks into              *)
(***************************************************************************)
EXTENDS Integers, Sequences, FiniteSets, TLC

VARIABLES
    root,           \* the dictionary the file at `path` deserializes to (entries)
    op,             \* the function that was called
    pc,             \* position in the called function
    loaded,         \* what plist::from_file returned: "ok" or the error
    login_items,    \* get_bookmarks: the loaded dictionary (line 15)
    i,              \* get_bookmarks: index of the entry the for loop of line 16 is at
    value,          \* the Value passed to get_array_values (line 38)
    j,              \* get_array_values: index of the element the loop of line 43 is at
    k,              \* get_array_values: index of the entry the loop of line 58 is at
    bookmark_data,  \* get_array_values: the accumulated Vec<Vec<u8>> (line 39)
    result          \* what the called function returned

vars == <<root, op, pc, loaded, login_items, i, value, j, k, bookmark_data, result>>

-----------------------------------------------------------------------------
(* Bounds of the inputs *)

\* longest $objects array
MaxArr == 2
\* most dictionary entries held by the dictionaries of one $objects array
MaxDict == 2
\* most entries of the root dictionary
MaxRoot == 2

-----------------------------------------------------------------------------
(* plist::Value *)

Data(b) == [tag |-> "Data", bytes |-> b, items |-> <<>>]
Array(s) == [tag |-> "Array", bytes |-> <<>>, items |-> s]
Dictionary(es) == [tag |-> "Dictionary", bytes |-> <<>>, items |-> es]
Scalar(t) == [tag |-> t, bytes |-> <<>>, items |-> <<>>]
Entry(key, v) == [key |-> key, value |-> v]

None == [some |-> FALSE]
Some(x) == [some |-> TRUE, v |-> x]

\* Value::as_array, Value::as_data, Value::as_dictionary of the plist crate
as_array(v) == IF v.tag = "Array" THEN Some(v.items) ELSE None
as_data(v) == IF v.tag = "Data" THEN Some(v.bytes) ELSE None
as_dictionary(v) == IF v.tag = "Dictionary" THEN Some(v.items) ELSE None

\* n bytes of value b
Bytes(n, b) == [x \in 1..n |-> b]

-----------------------------------------------------------------------------
(* The pure parts of the code *)

min_bookmark_size == 48

\* a comparison of the first seven characters only
IsObjectsKeyPrefix(key) == key \in {"$objects", "$object"}

\* line 17: key.as_str() != "$objects" is the negation of this
IsObjectsKey(key) == key = "$objects"

\* an arm that takes every collection
IsArrayOrDictionary(v) == v.tag \in {"Array", "Dictionary"}

\* an arm guarded by a non-empty array
IsNonEmptyArray(v) == v.tag = "Array" /\ v.items # <<>>

\* line 21: the arm Value::Array(_)
IsArrayVariant(v) == v.tag = "Array"

\* an error that reports the variant that was found
UnexpectedTypeFound(v) == [kind |-> "InvalidInput", msg |-> v.tag]

\* lines 26-29: the error of the arm `_`; the value that matched is not used
UnexpectedType(v) ==
    [kind |-> "InvalidInput", msg |-> "Incorrect plist type. Expected array."]

\* what plist::from_file fails with (lines 15 and 93)
LoaderError(why) == [kind |-> "plist::Error", msg |-> why]

NoError == [kind |-> "", msg |-> ""]
Ok(v) == [tag |-> "Ok", val |-> v, err |-> NoError]
Err(e) == [tag |-> "Err", val |-> <<>>, err |-> e]
\* nothing was returned yet
NoResult == [tag |-> "none", val |-> <<>>, err |-> NoError]

\* an insertion at the front
PushFront(vec, x) == <<x>> \o vec

\* a push that keeps one copy of equal blobs
PushUnique(vec, x) == IF \E q \in 1..Len(vec) : vec[q] = x THEN vec ELSE Append(vec, x)

\* Vec::push (lines 48 and 68)
Push(vec, x) == Append(vec, x)

\* a comparison that drops the blobs of exactly the minimum size
TooSmallInclusive(plist_results) == Len(plist_results) <= min_bookmark_size

\* line 65: plist_results.len() < min_bookmark_size
TooSmall(plist_results) == Len(plist_results) < min_bookmark_size

\* the size check of line 65 applied to the array elements too
PushArrayDataChecked(vec, data) ==
    IF Len(data.bytes) < min_bookmark_size THEN vec ELSE Push(vec, data.bytes)

\* lines 45-53: the arm Value::Data(_) of an array element
PushArrayData(vec, data) ==
    LET plist_data == as_data(data)
    IN  IF plist_data.some THEN Push(vec, plist_data.v) ELSE vec

\* a loop body that descends into the collections a dictionary entry holds
PushDictDataNested(vec, dict_data) ==
    IF dict_data.tag = "Data"
    THEN IF TooSmall(dict_data.bytes) THEN vec ELSE Push(vec, dict_data.bytes)
    ELSE IF dict_data.tag = "Array" /\ dict_data.items # <<>>
            /\ dict_data.items[1].tag = "Data"
    THEN Push(vec, dict_data.items[1].bytes)
    ELSE IF dict_data.tag = "Dictionary" /\ dict_data.items # <<>>
            /\ dict_data.items[1].value.tag = "Data"
    THEN Push(vec, dict_data.items[1].value.bytes)
    ELSE vec

\* lines 59-76: the body of the loop over the entries of a dictionary element
PushDictData(vec, dict_data) ==
    IF dict_data.tag = "Data"
    THEN LET plist_data == as_data(dict_data)
         IN  IF plist_data.some
             THEN IF TooSmall(plist_data.v) THEN vec ELSE Push(vec, plist_data.v)
             ELSE vec
    ELSE vec

\* a reader that keeps the "$objects" entry only
AppLoginItemsObjects(dict) == Ok(SelectSeq(dict, LAMBDA e : e.key = "$objects"))

\* line 94: Ok(login_items)
AppLoginItems(dict) == Ok(dict)

-----------------------------------------------------------------------------
(* Inputs *)

D0 == Data(Bytes(0, 0))
D47 == Data(Bytes(47, 98))
D48 == Data(Bytes(48, 98))
D49 == Data(Bytes(49, 111))
\* a blob of bookmark size that the inputs hold only below the first
\* dictionary level or inside a nested array
Deep == Data(Bytes(48, 107))

\* the values of the entries of a dictionary element
DictValues == {D47, D48, D49, Dictionary(<<Entry("NS.data", Deep)>>), Array(<<Deep>>)}

DictKeys == <<"NS.data", "$class", "NS.objects", "NS.keys">>

\* the array elements that are no dictionary with entries
PlainElements == {D0, D47, D48, Scalar("String"), Array(<<Deep>>), Dictionary(<<>>)}

\* the sum of the first p numbers of sh
RECURSIVE EntriesBefore(_, _)
EntriesBefore(sh, p) == IF p = 0 THEN 0 ELSE sh[p] + EntriesBefore(sh, p - 1)

\* An array of n elements is built from its shape sh (sh[p] is the number of
\* entries of element p when that is a dictionary with entries, else 0), the
\* values dv of all the dictionary entries in order, and the other elements pl.
BuildArray(n, sh, dv, pl) ==
    [p \in 1..n |->
        IF sh[p] = 0 THEN pl[p]
        ELSE Dictionary([q \in 1..sh[p] |->
                 Entry(DictKeys[q], dv[EntriesBefore(sh, p - 1) + q])])]

\* the shapes of the arrays of n elements whose dictionaries hold e entries
Shapes(n, e) == {f \in [1..n -> 0..e] : EntriesBefore(f, n) = e}

\* root is the dictionary whose only entry is "$objects", holding an array of
\* at most MaxArr elements whose dictionaries hold at most MaxDict entries
IsObjectsRoot(r) ==
    \E n \in 0..MaxArr, e \in 0..MaxDict :
        \E sh \in Shapes(n, e) :
            \E dv \in [1..e -> DictValues],
               pl \in [{p \in 1..n : sh[p] = 0} -> PlainElements] :
                r = <<Entry("$objects", Array(BuildArray(n, sh, dv, pl)))>>

\* $objects values that are no array
NonArrays ==
    {D48, Dictionary(<<Entry("NS.data", D48)>>), Scalar("String"), Scalar("Integer")}

\* a few arrays, for the root dictionaries that hold other entries too
FewArrays == {Array(<<>>), Array(<<D0, Dictionary(<<Entry("NS.data", D48)>>)>>)}

\* keys of the root dictionary; only the first is the key looked for
RootKeys == {"$objects", "$object", "$top", "objects"}

\* the values of the other root entries
OtherValues == {D48, Array(<<D48>>)}

RootValues(key) ==
    IF key = "$objects" THEN NonArrays \cup FewArrays ELSE OtherValues

AllRootValues == NonArrays \cup FewArrays \cup OtherValues

\* the sequences of n distinct root keys
KeySeqs(n) == {ks \in [1..n -> RootKeys] : \A p, q \in 1..n : p # q => ks[p] # ks[q]}

\* the root dictionaries of n entries: distinct keys, in any order
RootsOf(n) ==
    UNION {{[p \in 1..n |-> Entry(ks[p], vs[p])] :
               vs \in {f \in [1..n -> AllRootValues] :
                          \A p \in 1..n : f[p] \in RootValues(ks[p])}}
           : ks \in KeySeqs(n)}

\* the root dictionaries that hold a non-array or other entries
Roots == UNION {RootsOf(n) : n \in 0..MaxRoot}

-----------------------------------------------------------------------------
Init ==
    /\ \/ root \in Roots
       \/ IsObjectsRoot(root)
    /\ op = "none"
    /\ pc = "idle"
    /\ loaded = "none"
    /\ login_items = <<>>
    /\ i = 0
    /\ value = Scalar("None")
    /\ j = 0
    /\ k = 0
    /\ bookmark_data = <<>>
    /\ result = NoResult

\* the outcomes of plist::from_file: the dictionary, or one of its errors
LoadOutcomes == {"ok", "Io", "InvalidData"}

\* line 15: get_bookmarks is called and loads the file
get_bookmarks_load ==
    /\ pc = "idle"
    /\ op' = "get_bookmarks"
    /\ \E out \in LoadOutcomes :
          /\ loaded' = out
          /\ IF out = "ok"
             THEN /\ login_items' = root
                  /\ i' = 1
                  /\ pc' = "scan"
                  /\ UNCHANGED result
             ELSE /\ result' = Err(LoaderError(out))
                  /\ pc' = "done"
                  /\ UNCHANGED <<login_items, i>>
    /\ UNCHANGED <<root, value, j, k, bookmark_data>>

\* lines 16-31: one iteration of the loop over the root entries
get_bookmarks_entry ==
    /\ pc = "scan"
    /\ i <= Len(login_items)
    /\ LET key == login_items[i].key
           v == login_items[i].value
       IN  IF ~IsObjectsKey(key)
           THEN /\ i' = i + 1
                /\ UNCHANGED <<pc, value, result>>
           ELSE IF IsArrayVariant(v)
           THEN /\ value' = v
                /\ pc' = "get_array_values"
                /\ UNCHANGED <<i, result>>
           ELSE /\ result' = Err(UnexpectedType(v))
                /\ pc' = "done"
                /\ UNCHANGED <<i, value>>
    /\ UNCHANGED <<root, op, loaded, login_items, j, k, bookmark_data>>

\* lines 32-34: the loop ends without a "$objects" key
get_bookmarks_empty ==
    /\ pc = "scan"
    /\ i > Len(login_items)
    /\ result' = Ok(<<>>)
    /\ pc' = "done"
    /\ UNCHANGED <<root, op, loaded, login_items, i, value, j, k, bookmark_data>>

\* lines 39-42 and 86: get_array_values starts. get_bookmarks calls it on an
\* array only, so the arm None of line 86 is never taken by this caller.
get_array_values_begin ==
    /\ pc = "get_array_values"
    /\ bookmark_data' = <<>>
    /\ IF as_array(value).some
       THEN /\ j' = 1
            /\ pc' = "array"
            /\ UNCHANGED result
       ELSE /\ result' = Ok(<<>>)
            /\ pc' = "done"
            /\ UNCHANGED j
    /\ UNCHANGED <<root, op, loaded, login_items, i, value, k>>

\* lines 43-57 and 79-83: one element of the array
get_array_values_element ==
    /\ pc = "array"
    /\ j <= Len(as_array(value).v)
    /\ LET data == as_array(value).v[j]
       IN  IF data.tag = "Data"
           THEN /\ bookmark_data' = PushArrayData(bookmark_data, data)
                /\ j' = j + 1
                /\ UNCHANGED <<pc, k>>
           ELSE IF data.tag = "Dictionary" /\ as_dictionary(data).some
           THEN /\ k' = 1
                /\ pc' = "dictionary"
                /\ UNCHANGED <<j, bookmark_data>>
           ELSE /\ j' = j + 1
                /\ UNCHANGED <<pc, k, bookmark_data>>
    /\ UNCHANGED <<root, op, loaded, login_items, i, value, result>>

\* lines 58-77: one entry of a dictionary element
get_array_values_dict_entry ==
    /\ pc = "dictionary"
    /\ LET dict == as_dictionary(as_array(value).v[j]).v
       IN  /\ k <= Len(dict)
           /\ bookmark_data' = PushDictData(bookmark_data, dict[k].value)
    /\ k' = k + 1
    /\ UNCHANGED <<root, op, pc, loaded, login_items, i, value, j, result>>

\* line 77: the entries of the dictionary element are exhausted
get_array_values_dict_end ==
    /\ pc = "dictionary"
    /\ k > Len(as_dictionary(as_array(value).v[j]).v)
    /\ j' = j + 1
    /\ pc' = "array"
    /\ UNCHANGED <<root, op, loaded, login_items, i, value, k, bookmark_data, result>>

\* lines 84-88, and 22-23 in get_bookmarks: the array is exhausted
get_array_values_return ==
    /\ pc = "array"
    /\ j > Len(as_array(value).v)
    /\ result' = Ok(bookmark_data)
    /\ pc' = "done"
    /\ UNCHANGED <<root, op, loaded, login_items, i, value, j, k, bookmark_data>>

\* lines 92-95
get_app_loginitems ==
    /\ pc = "idle"
    /\ op' = "get_app_loginitems"
    /\ \E out \in LoadOutcomes :
          /\ loaded' = out
          /\ IF out = "ok"
             THEN /\ login_items' = root
                  /\ result' = AppLoginItems(login_items')
             ELSE /\ result' = Err(LoaderError(out))
                  /\ UNCHANGED login_items
    /\ pc' = "done"
    /\ UNCHANGED <<root, i, value, j, k, bookmark_data>>

Next ==
    \/ get_bookmarks_load
    \/ get_bookmarks_entry
    \/ get_bookmarks_empty
    \/ get_array_values_begin
    \/ get_array_values_element
    \/ get_array_values_dict_entry
    \/ get_array_values_dict_end
    \/ get_array_values_return
    \/ get_app_loginitems

Spec == Init /\ [][Next]_vars

-----------------------------------------------------------------------------
(* What the properties speak of *)

HasObjects(dict) == \E p \in 1..Len(dict) : dict[p].key = "$objects"
ObjectsValue(dict) == dict[CHOOSE p \in 1..Len(dict) : dict[p].key = "$objects"].value

\* get_bookmarks returned, and the file had loaded
Extracted == op = "get_bookmarks" /\ pc = "done" /\ loaded = "ok"

\* get_bookmarks was called on a file whose "$objects" value is an array
OverArray ==
    /\ op = "get_bookmarks"
    /\ loaded = "ok"
    /\ HasObjects(root)
    /\ ObjectsValue(root).tag = "Array"

\* get_bookmarks returned on a "$objects" value that is no array
Mismatch == Extracted /\ HasObjects(root) /\ ObjectsValue(root).tag # "Array"

\* the elements of the "$objects" array
Objects == ObjectsValue(root).items

IsBlobOf(el) == el.tag = "Data"
Qualifies(el) == el.tag = "Data" /\ Len(el.bytes) >= 48
IsPrefix(s, t) == Len(s) <= Len(t) /\ SubSeq(t, 1, Len(s)) = s
Holds(vec, x) == \E q \in 1..Len(vec) : vec[q] = x

\* the blobs of the qualifying Data entries of a dictionary, in entry order
QualifyingOf(entries) ==
    LET kept == SelectSeq(entries, LAMBDA e : Qualifies(e.value))
    IN  [q \in 1..Len(kept) |-> kept[q].value.bytes]

\* what one array element contributes to the result
Contribution(el) ==
    IF el.tag = "Data" THEN <<el.bytes>>
    ELSE IF el.tag = "Dictionary" THEN QualifyingOf(el.items)
    ELSE <<>>

\* the contributions of the elements, one after the other
RECURSIVE Traversal(_)
Traversal(els) ==
    IF els = <<>> THEN <<>> ELSE Contribution(Head(els)) \o Traversal(Tail(els))

-----------------------------------------------------------------------------
(* C1 *)

\* C1: when the root dictionary has a "$objects" value that is no array,
\* get_bookmarks returns the error of kind InvalidInput and no blob, and
\* get_array_values is never entered.
C1_NonArrayFails ==
    (op = "get_bookmarks" /\ loaded = "ok" /\ HasObjects(root)
        /\ ObjectsValue(root).tag # "Array")
    => /\ pc \in {"scan", "done"}
       /\ bookmark_data = <<>>
       /\ pc = "done" => /\ result.tag = "Err"
                         /\ result.err.kind = "InvalidInput"
                         /\ result.val = <<>>

C1_Witness ==
    /\ Mismatch
    /\ ObjectsValue(root) = Dictionary(<<Entry("NS.data", D48)>>)
    /\ result.tag = "Err"

-----------------------------------------------------------------------------
(* C2 *)

\* C2: when no key of the root dictionary equals "$objects", get_bookmarks
\* returns Ok of the empty sequence, whatever the entries hold.
C2_NoObjectsKeyEmpty ==
    (Extracted /\ ~HasObjects(root)) => result = Ok(<<>>)

C2_Witness ==
    /\ Extracted
    /\ ~HasObjects(root)
    /\ \E p, q \in 1..Len(root) :
          /\ root[p] = Entry("$object", D48)
          /\ root[q].value = Array(<<D48>>)
    /\ result = Ok(<<>>)

-----------------------------------------------------------------------------
(* C3 *)

\* the step of the loop of line 58 is at a Data entry
AtDictData ==
    /\ pc = "dictionary"
    /\ k <= Len(value.items[j].items)
    /\ value.items[j].items[k].value.tag = "Data"

\* C3: the step over a Data entry of a dictionary element appends the bytes
\* when their length is at least 48 and leaves the result alone otherwise;
\* and a blob shorter than 48 in the returned sequence is a direct Data
\* element of the array.
C3_NestedSizeCheck ==
    /\ [][AtDictData =>
            LET b == value.items[j].items[k].value.bytes
            IN  bookmark_data' =
                    IF Len(b) >= 48 THEN Append(bookmark_data, b) ELSE bookmark_data]_vars
    /\ []((OverArray /\ pc = "done") =>
            \A q \in 1..Len(result.val) :
                Len(result.val[q]) < 48 => Holds(Objects, Data(result.val[q])))

C3_Witness ==
    /\ OverArray
    /\ pc = "done"
    /\ Objects = <<Dictionary(<<Entry(DictKeys[1], D47), Entry(DictKeys[2], D48)>>)>>
    /\ result = Ok(<<D48.bytes>>)

-----------------------------------------------------------------------------
(* C4 *)

\* the step of the loop of line 43 is at a Data element
AtArrayData ==
    /\ pc = "array"
    /\ j <= Len(value.items)
    /\ value.items[j].tag = "Data"

-----------------------------------------------------------------------------
(* C5 *)

\* C5: at every point of the traversal the accumulated sequence is the
\* contributions of the elements and entries passed so far, in their order;
\* the returned sequence is that of the whole array; and every step keeps
\* what was accumulated as a prefix.
C5_TraversalOrder ==
    /\ []((OverArray /\ pc = "array") =>
            bookmark_data = Traversal(SubSeq(Objects, 1, j - 1)))
    /\ []((OverArray /\ pc = "dictionary") =>
            bookmark_data = Traversal(SubSeq(Objects, 1, j - 1))
                            \o QualifyingOf(SubSeq(Objects[j].items, 1, k - 1)))
    /\ []((OverArray /\ pc = "done") => result = Ok(Traversal(Objects)))
    /\ [][IsPrefix(bookmark_data, bookmark_data')]_vars

C5_Witness ==
    /\ OverArray
    /\ pc = "done"
    /\ Objects = <<D0, Dictionary(<<Entry(DictKeys[1], D49), Entry(DictKeys[2], D48)>>)>>
    /\ result = Ok(<<D0.bytes, D49.bytes, D48.bytes>>)

-----------------------------------------------------------------------------
(* C6 *)

\* C6: when the "$objects" value is an array, get_bookmarks never returns an
\* error, whatever the array holds.
C6_ArrayNeverFails ==
    OverArray => /\ result.tag # "Err"
                 /\ pc = "done" => result.tag = "Ok"

C6_Witness ==
    /\ OverArray
    /\ pc = "done"
    /\ Objects = <<Scalar("String"), Dictionary(<<Entry(DictKeys[1], D47),
                                                  Entry(DictKeys[2], Array(<<Deep>>))>>)>>
    /\ result = Ok(<<>>)

-----------------------------------------------------------------------------
(* C7 *)

\* C7 as stated: the error returned for a "$objects" value that is no array
\* tells the variants apart: it differs from the error returned for a value
\* of any other variant.
C7_ErrorTellsVariant ==
    Mismatch =>
        \A w \in NonArrays :
            w.tag # ObjectsValue(root).tag => UnexpectedType(w) # result.err

\* C7 amended: the error returned for a "$objects" value that is no array
\* has the fixed message that names the expected type, and is the same error
\* for every variant found.
C7_ErrorNamesExpected ==
    Mismatch =>
        /\ result.err.msg = "Incorrect plist type. Expected array."
        /\ \A w \in NonArrays : UnexpectedType(w) = result.err

C7_Witness ==
    /\ Mismatch
    /\ ObjectsValue(root) = Scalar("String")
    /\ result.err = UnexpectedType(D48)

-----------------------------------------------------------------------------
(* C8 *)

\* the Data elements of the array, and the qualifying Data entries of its
\* dictionary elements, by position
DataElements == {p \in 1..Len(Objects) : IsBlobOf(Objects[p])}
QualifyingEntries ==
    UNION {{<<p, q>> : q \in {q \in 1..Len(Objects[p].items) :
                                 Qualifies(Objects[p].items[q].value)}}
           : p \in {p \in 1..Len(Objects) : Objects[p].tag = "Dictionary"}}

\* C8: the returned sequence has one blob for each Data element of the array
\* and each qualifying Data entry of its dictionary elements, equal blobs
\* counted once each.
C8_ResultLength ==
    (OverArray /\ pc = "done") =>
        /\ result.tag = "Ok"
        /\ Len(result.val) = Cardinality(DataElements) + Cardinality(QualifyingEntries)
        /\ Len(bookmark_data) = Len(result.val)

C8_Witness ==
    /\ OverArray
    /\ pc = "done"
    /\ Objects = <<D48, Dictionary(<<Entry(DictKeys[1], D48)>>)>>
    /\ Len(result.val) = 2

-----------------------------------------------------------------------------
(* C9 *)

\* C9: get_app_loginitems returns the loaded dictionary as it is when the
\* file loads and the loader's error otherwise, and does no extraction.
C9_ReaderPassThrough ==
    (op = "get_app_loginitems") =>
        /\ pc = "done"
        /\ loaded = "ok" => result.tag = "Ok" /\ result.val = root
        /\ loaded # "ok" => result = Err(LoaderError(loaded))
        /\ bookmark_data = <<>>

C9_Witness ==
    /\ op = "get_app_loginitems"
    /\ loaded = "ok"
    /\ Len(root) > 1
    /\ HasObjects(root)
    /\ ObjectsValue(root) = D48
    /\ result = Ok(root)

-----------------------------------------------------------------------------
(* C10 *)

\* the blobs one dictionary level below the array at most
ShallowBlobs ==
    {Objects[p].bytes : p \in DataElements}
    \cup UNION {{Objects[p].items[q].value.bytes :
                    q \in {q \in 1..Len(Objects[p].items) :
                             IsBlobOf(Objects[p].items[q].value)}}
                : p \in {p \in 1..Len(Objects) : Objects[p].tag = "Dictionary"}}

\* the step of the loop of line 43 is at an element that is no Data and no
\* Dictionary
AtSkippedElement ==
    /\ pc = "array"
    /\ j <= Len(value.items)
    /\ value.items[j].tag \notin {"Data", "Dictionary"}

\* the step of the loop of line 58 is at an entry that is no Data
AtSkippedEntry ==
    /\ pc = "dictionary"
    /\ k <= Len(value.items[j].items)
    /\ value.items[j].items[k].value.tag # "Data"

\* C10: every returned blob is a Data element of the array or a Data value
\* of a dictionary element; the blob held deeper is never returned; and the
\* step over any other element or entry changes nothing but the position of
\* its loop.
C10_OneLevel ==
    /\ []((OverArray /\ pc = "done") =>
            /\ \A q \in 1..Len(result.val) : result.val[q] \in ShallowBlobs
            /\ ~Holds(result.val, Deep.bytes))
    /\ [][AtSkippedElement =>
            bookmark_data' = bookmark_data /\ j' = j + 1 /\ pc' = "array"]_vars
    /\ [][AtSkippedEntry =>
            bookmark_data' = bookmark_data /\ k' = k + 1 /\ pc' = "dictionary"]_vars

C10_Witness ==
    /\ OverArray
    /\ pc = "done"
    /\ Objects = <<Array(<<Deep>>),
                   Dictionary(<<Entry(DictKeys[1], Dictionary(<<Entry("NS.data", Deep)>>)),
                                Entry(DictKeys[2], D48)>>)>>
    /\ result = Ok(<<D48.bytes>>)
====
